---- MODULE Spec2Model ----
(***************************************************************************)
(* State machine of the ChatHub client's connection manager                *)
(* (SocketProvider in chathub-frontend/src/context/SocketContext.js).      *)
(*                                                                         *)
(* Every handler, API call and timer callback of the provider is one       *)
(* action.  Outstanding timers are kept in the order they were scheduled;  *)
(* a timer fires only after every older timer whose delay is not longer.   *)
(* `out` and `notes` hold the transport events and the toasts produced by  *)
(* the step that was taken last, `last` names that step.                   *)
(***************************************************************************)
EXTENDS Integers, Sequences, FiniteSets, TLC

\* ------------------------------------------------------------------ bounds
\* Timers that may be outstanding at once
MaxTimers == 2

\* Optimistic appends a chat page makes
MaxLocal == 1

\* -------------------------------------------------------- program constants
\* setTimeout delays, in milliseconds
RosterDelay == 1000
JoinTimeoutDelay == 3000
TrackerExpiry == 5000
PrivateInitDelay == 500

DefaultRoom == "Chat Room 1"
NoRoom == "none"
NoUser == "nobody"

Users == {"carol"}
Rooms == {DefaultRoom, "Chat Room 2"}
RoomArgs == Rooms \cup {NoRoom}
Peers == {"alice"}
JoinNames == Peers \cup Users
Contents == {"  ", " hi "}

\* Message ids the server assigns
MsgIds == {1, 2}

\* No chat page is mounted / Chat is mounted for room r / PrivateChat for friend f
NoChat == [kind |-> "none", target |-> NoRoom]

RoomChat(r) == [kind |-> "room", target |-> r]

PrivateChat(f) == [kind |-> "private", target |-> f]

\* The components that subscribe to events
Subscribers == {"x", "y"}

\* The events the manager lets components subscribe to
SubEvents == {"receive_message", "receive_private_message", "user_joined", "user_left"}

\* A subscriber's registration: the event it subscribed to ("none" before it
\* subscribes), the socket its handler was registered on (0 when
\* socketRef.current was null and the no-op cleanup was returned), whether the
\* handler is still in that socket's listener list, and whether the cleanup
\* the subscription returned has been called
NoSub == [ev |-> "none", on |-> 0, live |-> FALSE, cancelled |-> FALSE]

\* Nothing was dispatched by the last step
NoDelivery == [on |-> 0, to |-> <<>>]

\* The sockets io() hands out: the one the current effect run created and one
\* left behind by an earlier run
SockIds == {1, 2}

\* Reasons the transport gives for a disconnect it did not get from the client
DisconnectReasons ==
    {"io server disconnect", "ping timeout", "transport close",
     "transport error", "unknown"}

VARIABLES
    user,                 \* AuthContext user (NoUser = null)
    token,                \* AuthContext token present
    sock,                 \* state of every socket io() created
    cleanupSock,          \* socket the registered effect cleanup closes over (0 = none)
    attempts,             \* per socket: the reconnection attempts that failed since
                          \* the socket was last connected or opened by hand
    socketRef,            \* socketRef.current (0 = null)
    connected,            \* React state `connected`
    onlineUsers,          \* React state `onlineUsers`
    isConnecting,         \* isConnectingRef.current
    socketInitialized,    \* socketInitializedRef.current
    roomJoinInProgress,   \* roomJoinInProgressRef.current
    currentRoom,          \* currentRoomRef.current
    lastJoinedRoom,       \* lastJoinedRoomRef.current
    joinedUsers,          \* joinedUsersRef.current
    timers,               \* outstanding setTimeout callbacks, oldest first; the one
                          \* roomJoinTimeoutRef.current names has ref = TRUE
    announced,            \* history: sockets on which user_connected was emitted
                          \*          since their last connect
    out,                  \* transport events emitted by the last step
    notes,                \* toasts shown by the last step
    last,                 \* the last step
    openChat,             \* the chat page that is mounted: Chat (room) or PrivateChat
    messages,             \* React state `messages` of the mounted chat page
    now,                  \* Date.now() at the last optimistic append
    previousRoom,         \* Chat's previousRoomRef.current
    roomInitialized,      \* Chat's roomInitializedRef.current
    effectRoom,           \* decodedRoomName at the last run of Chat's room effect
                          \* (NoRoom = Chat is not mounted)
    effectConnected,      \* `connected` at the last run of Chat's room effect
    sub,                  \* every subscriber's registration through onMessage,
                          \* onPrivateMessage, onUserJoined or onUserLeft
    delivered             \* the socket that dispatched an event in the last step
                          \* and the subscribers it was handed to

vars == <<user, token, sock, cleanupSock, attempts, socketRef, connected,
          onlineUsers, isConnecting, socketInitialized, roomJoinInProgress,
          currentRoom, lastJoinedRoom, joinedUsers, timers,
          announced, out, notes, last, openChat, messages, now,
          previousRoom, roomInitialized, effectRoom, effectConnected,
          sub, delivered>>

\* The refs and React state the manager owns
managerState == <<socketRef, connected, onlineUsers, isConnecting,
                  socketInitialized, roomJoinInProgress, currentRoom,
                  lastJoinedRoom, joinedUsers>>

authVars == <<user, token, cleanupSock, attempts>>

\* The state of the chat pages
\* The state of Chat's room-management effect
pageVars == <<previousRoom, roomInitialized, effectRoom, effectConnected>>

\* The subscriptions
subVars == <<sub, delivered>>

chatVars == <<openChat, messages, now, pageVars, subVars>>

\* ----------------------------------------------------------------- helpers
\* The record of a step: the operation or handler, its argument, the content it
\* was given (send operations only) and its outcome
StepWith(op, arg, c, res) == [op |-> op, arg |-> arg, given |-> c, res |-> res]

Step(op, arg, res) == StepWith(op, arg, "", res)

\* socket.emit(ev, payload) on socket s: usr is the payload's username, arg its
\* room or peer, body its content
Emit(ev, usr, arg, body, s) == [ev |-> ev, usr |-> usr, arg |-> arg, body |-> body, on |-> s]

\* Sockets a sequence of emissions announces a room membership on
Announces(seq) == {seq[i].on : i \in {j \in 1..Len(seq) : seq[j].ev = "user_connected"}}

\* isAuthenticated() for the identity (u, tok)
isAuthenticated(u, tok) == tok /\ u # NoUser

\* String.prototype.trim on the modelled contents
Trim(c) ==
    CASE c = "  " -> ""
      [] c = " hi " -> "hi"
      [] OTHER -> c

\* setTimeout(callback, delay): conn is the `connected` the callback closed
\* over, ref tells that roomJoinTimeoutRef.current holds the timer's id
Timer(kind, arg, body, delay, conn, ref) ==
    [kind |-> kind, arg |-> arg, body |-> body, delay |-> delay, conn |-> conn, ref |-> ref]

\* clearTimeout(roomJoinTimeoutRef.current)
ClearJoinTimeout(ts) == SelectSeq(ts, LAMBDA t : ~t.ref)

\* The timers without the i-th
Without(ts, i) == [k \in 1..(Len(ts) - 1) |-> IF k < i THEN ts[k] ELSE ts[k + 1]]

Count(seq, ev) == Cardinality({i \in 1..Len(seq) : seq[i].ev = ev})

\* socket.id as read by getConnectionStatus: set while the socket is connected
SocketId == IF socketRef # 0 /\ sock[socketRef] = "connected" THEN socketRef ELSE 0

Init ==
    /\ user = NoUser
    /\ token = FALSE
    /\ sock = [s \in SockIds |-> "unused"]
    /\ cleanupSock = 0
    /\ attempts = [s \in SockIds |-> 0]
    /\ socketRef = 0
    /\ connected = FALSE
    /\ onlineUsers = <<>>
    /\ isConnecting = FALSE
    /\ socketInitialized = FALSE
    /\ roomJoinInProgress = FALSE
    /\ currentRoom = NoRoom
    /\ lastJoinedRoom = NoRoom
    /\ joinedUsers = {}
    /\ timers = <<>>
    /\ announced = {}
    /\ out = <<>>
    /\ notes = <<>>
    /\ last = Step("init", NoRoom, "ok")
    /\ openChat = NoChat
    /\ messages = <<>>
    /\ now = 0
    /\ previousRoom = NoRoom
    /\ roomInitialized = FALSE
    /\ effectRoom = NoRoom
    /\ effectConnected = FALSE
    /\ sub = [x \in Subscribers |-> NoSub]
    /\ delivered = NoDelivery

\* ------------------------------------------------- provider effect (39-370)
\* Sockets io() may return: one never used, or one the cleanup closed (nothing
\* refers to a closed socket any more)
FreeSocks(sk) == {s \in SockIds : sk[s] \in {"unused", "closed"}}

NewSock(sk) == CHOOSE s \in FreeSocks(sk) : \A x \in FreeSocks(sk) : s <= x

\* The registrations once the closed socket object numbered s is released and
\* its number names a new socket: the listener list is gone with the object,
\* and an off for one of its handlers finds nothing on any other socket
Released(s) ==
    [x \in Subscribers |->
        IF sub[x].on = s THEN [sub[x] EXCEPT !.on = 0, !.live = FALSE] ELSE sub[x]]

\* A change of the effect's dependencies [user, isAuthenticated]: the cleanup
\* the previous run returned (346-368), then the effect body (39-49) for the
\* identity (u, tok).  Unmounting the provider runs the same cleanup.
EffectRun(u, tok, op) ==
    LET hasCleanup == cleanupSock # 0
        wasLive == hasCleanup /\ sock[cleanupSock] = "connected"
        \* newSocket.disconnect() only when newSocket.connected
        sock1 == IF wasLive THEN [sock EXCEPT ![cleanupSock] = "closed"] ELSE sock
        ref1 == IF hasCleanup THEN 0 ELSE socketRef
        connecting1 == IF hasCleanup THEN FALSE ELSE isConnecting
        create == isAuthenticated(u, tok) /\ ref1 = 0 /\ ~connecting1
    IN  /\ create => FreeSocks(sock1) # {}
        /\ user' = u
        /\ token' = tok
        /\ sock' = IF create THEN [sock1 EXCEPT ![NewSock(sock1)] = "connecting"] ELSE sock1
        /\ cleanupSock' = IF create THEN NewSock(sock1) ELSE 0
        /\ attempts' = IF create THEN [attempts EXCEPT ![NewSock(sock1)] = 0] ELSE attempts
        /\ isConnecting' = IF create THEN TRUE ELSE connecting1
        /\ socketRef' = ref1
        /\ IF hasCleanup
           THEN /\ connected' = FALSE
                /\ onlineUsers' = <<>>
                /\ currentRoom' = NoRoom
                /\ socketInitialized' = FALSE
                /\ joinedUsers' = {}
                /\ roomJoinInProgress' = FALSE
                /\ lastJoinedRoom' = NoRoom
                /\ timers' = ClearJoinTimeout(timers)
                /\ announced' = IF wasLive THEN announced \ {cleanupSock} ELSE announced
           ELSE UNCHANGED <<connected, onlineUsers, currentRoom, socketInitialized,
                            joinedUsers, roomJoinInProgress, lastJoinedRoom, timers,
                            announced>>
        /\ out' = <<>>
        /\ notes' = <<>>
        /\ last' = Step(op, u, IF create THEN "created" ELSE IF hasCleanup THEN "cleaned" ELSE "idle")
        /\ sub' = IF create THEN Released(NewSock(sock1)) ELSE sub
        /\ UNCHANGED <<openChat, messages, now, pageVars, delivered>>

Login(u) ==
    /\ user = NoUser
    /\ EffectRun(u, TRUE, "login")

Logout ==
    /\ user # NoUser
    /\ EffectRun(NoUser, FALSE, "logout")

\* --------------------------------------------- transport event handlers
\* Socket states: "connecting" (first handshake, or connect() called again),
\* "connected", "waiting" (dropped, the manager retries on its own), "closed"
\* (disconnected by the client).

\* A connect handler that resumes the room it remembers
ConnectEmits_Rejoin(s) ==
    IF currentRoom # NoRoom /\ user # NoUser
    THEN <<Emit("user_connected", user, currentRoom, "", s)>>
    ELSE <<>>

\* What the connect handler sends on connection: nothing (lines 90-91)
ConnectEmits(s) == <<>>

ConnectInitialized_Unset == socketInitialized

\* socketInitializedRef.current after 'connect' (88) and 'reconnect' (173)
ConnectInitialized == TRUE

OnConnect(s) ==
    /\ sock[s] \in {"connecting", "waiting"}
    /\ sock' = [sock EXCEPT ![s] = "connected"]
    /\ connected' = TRUE
    /\ socketRef' = s
    /\ isConnecting' = FALSE
    /\ socketInitialized' = ConnectInitialized
    /\ announced' = (announced \ {s}) \cup Announces(ConnectEmits(s))
    /\ out' = ConnectEmits(s)
    /\ notes' = <<"Connected to ChatHub!">>
    /\ last' = Step("connect", NoRoom, "ok")
    /\ attempts' = [attempts EXCEPT ![s] = 0]
    /\ UNCHANGED <<user, token, cleanupSock, chatVars, onlineUsers, roomJoinInProgress, currentRoom,
                   lastJoinedRoom, joinedUsers, timers>>

ErrorKinds == {"timeout", "other"}

ConnectErrorToast(kind) ==
    CASE kind = "CORS" -> "Connection failed: CORS error"
      [] kind = "timeout" -> "Connection timeout. Please check your connection."
      [] kind = "version" -> "Connection failed: Version mismatch"
      [] kind = "xhr" -> "Cannot reach server. Please check if server is running."
      [] OTHER -> "Connection failed. Please try refreshing the page."

OnConnectError(s, kind) ==
    /\ sock[s] \in {"connecting", "waiting"}
    /\ connected' = FALSE
    /\ isConnecting' = FALSE
    /\ socketInitialized' = FALSE
    /\ out' = <<>>
    /\ notes' = <<ConnectErrorToast(kind)>>
    /\ last' = Step("connect_error", kind, "ok")
    /\ UNCHANGED <<authVars, chatVars, sock, socketRef, onlineUsers, roomJoinInProgress,
                   currentRoom, lastJoinedRoom, joinedUsers, timers, announced>>

\* reconnectionAttempts (line 62)
ReconnectionAttempts == 5

GivesUp_Never(n) == FALSE

\* The retries end when as many attempts as reconnectionAttempts have failed
GivesUp(n) == n >= ReconnectionAttempts

\* A connection attempt of socket s fails, with the retries counted:
\* 'connect_error' (96-122) is handled; the first try of a socket leaves it
\* waiting for the retries (reconnection: true, line 61); a failed retry counts,
\* and the one that reaches reconnectionAttempts ends the retries and
\* 'reconnect_failed' (190-194) is handled.  OnConnectError is the same event
\* with the retries left uncounted.
OnAttemptFailed(s, kind) ==
    /\ sock[s] \in {"connecting", "waiting"}
    /\ LET n == IF sock[s] = "waiting" THEN attempts[s] + 1 ELSE attempts[s]
           gaveUp == sock[s] = "waiting" /\ GivesUp(n)
       IN  /\ n <= ReconnectionAttempts
           /\ sock' = [sock EXCEPT ![s] = IF gaveUp THEN "failed" ELSE "waiting"]
           /\ attempts' = [attempts EXCEPT ![s] = IF gaveUp THEN 0 ELSE n]
           /\ notes' = <<ConnectErrorToast(kind)>>
                         \o (IF gaveUp THEN <<"Failed to reconnect. Please refresh the page.">>
                             ELSE <<>>)
           /\ last' = Step("connect_error", kind, IF gaveUp THEN "gave_up" ELSE "retrying")
    /\ connected' = FALSE
    /\ isConnecting' = FALSE
    /\ socketInitialized' = FALSE
    /\ out' = <<>>
    /\ UNCHANGED <<user, token, cleanupSock, chatVars, socketRef, onlineUsers, roomJoinInProgress,
                   currentRoom, lastJoinedRoom, joinedUsers, timers, announced>>

\* currentRoomRef.current after 'disconnect': the handler does not assign it
DisconnectCurrentRoom(cur) == cur

DisconnectToast(reason) ==
    CASE reason = "io server disconnect" -> <<"Server disconnected. Reconnecting...">>
      [] reason = "io client disconnect" -> <<>>
      [] reason = "ping timeout" -> <<"Connection timed out. Reconnecting...">>
      [] reason = "transport close" -> <<>>
      [] reason = "transport error" -> <<>>
      [] OTHER -> <<"Connection lost. Attempting to reconnect...">>

\* A transport that retries after every disconnect and a handler that leaves it
\* to the transport
DisconnectNextSock_AlwaysRetry(reason) == "waiting"

\* The socket after the handler: 'io server disconnect' is not retried by the
\* transport, the handler calls newSocket.connect() itself (line 144); a socket
\* the client disconnected stays closed (146-148); with reconnection: true
\* (line 61) the transport retries after every other reason
DisconnectNextSock(reason) ==
    CASE reason = "io server disconnect" -> "connecting"
      [] reason = "io client disconnect" -> "closed"
      [] OTHER -> "waiting"

OnDisconnect(s, reason) ==
    /\ sock[s] = "connected"
    /\ sock' = [sock EXCEPT ![s] = DisconnectNextSock(reason)]
    /\ connected' = FALSE
    /\ socketInitialized' = FALSE
    /\ joinedUsers' = {}
    /\ roomJoinInProgress' = FALSE
    /\ lastJoinedRoom' = NoRoom
    /\ currentRoom' = DisconnectCurrentRoom(currentRoom)
    /\ timers' = ClearJoinTimeout(timers)
    /\ announced' = announced \ {s}
    /\ out' = <<>>
    /\ notes' = DisconnectToast(reason)
    /\ last' = Step("disconnect", reason, "ok")
    /\ UNCHANGED <<authVars, chatVars, socketRef, onlineUsers, isConnecting>>

\* A reconnection by a transport that tells the socket: 'reconnect' (167-180)
\* is delivered and 'connect' (78-94) right after it
OnReconnect(s) ==
    /\ sock[s] = "waiting"
    /\ sock' = [sock EXCEPT ![s] = "connected"]
    /\ connected' = TRUE
    /\ socketInitialized' = ConnectInitialized
    /\ joinedUsers' = {}
    /\ roomJoinInProgress' = FALSE
    /\ socketRef' = s
    /\ isConnecting' = FALSE
    /\ announced' = (announced \ {s}) \cup Announces(ConnectEmits(s))
    /\ out' = ConnectEmits(s)
    /\ notes' = <<"Reconnected to ChatHub!", "Connected to ChatHub!">>
    /\ last' = Step("reconnect", NoRoom, "ok")
    /\ attempts' = [attempts EXCEPT ![s] = 0]
    /\ UNCHANGED <<user, token, cleanupSock, chatVars, onlineUsers, currentRoom, lastJoinedRoom, timers>>

OnConnectionConfirmed(s) ==
    /\ sock[s] = "connected"
    /\ roomJoinInProgress' = FALSE
    /\ out' = <<>>
    /\ notes' = <<>>
    /\ last' = Step("connection_confirmed", NoRoom, "ok")
    /\ UNCHANGED <<authVars, chatVars, sock, socketRef, connected, onlineUsers, isConnecting,
                   socketInitialized, currentRoom, lastJoinedRoom,
                   joinedUsers, timers, announced>>

\* forceReconnect (668-674): socketRef.current.disconnect(), which runs the
\* 'disconnect' handler with 'io client disconnect' when the socket is
\* connected, then socketRef.current.connect()
ForceReconnect ==
    /\ socketRef # 0
    /\ sock[socketRef] # "closed"
    /\ LET wasConnected == sock[socketRef] = "connected"
       IN  /\ sock' = [sock EXCEPT ![socketRef] = "connecting"]
           /\ connected' = IF wasConnected THEN FALSE ELSE connected
           /\ socketInitialized' = IF wasConnected THEN FALSE ELSE socketInitialized
           /\ joinedUsers' = IF wasConnected THEN {} ELSE joinedUsers
           /\ roomJoinInProgress' = IF wasConnected THEN FALSE ELSE roomJoinInProgress
           /\ lastJoinedRoom' = IF wasConnected THEN NoRoom ELSE lastJoinedRoom
           /\ currentRoom' = IF wasConnected THEN DisconnectCurrentRoom(currentRoom) ELSE currentRoom
           /\ timers' = IF wasConnected THEN ClearJoinTimeout(timers) ELSE timers
           /\ announced' = announced \ {socketRef}
           /\ notes' = IF wasConnected THEN DisconnectToast("io client disconnect") ELSE <<>>
           /\ last' = Step("forceReconnect", "io client disconnect",
                           IF wasConnected THEN "disconnected" ELSE "reopened")
    /\ out' = <<>>
    /\ attempts' = [attempts EXCEPT ![socketRef] = 0]
    /\ UNCHANGED <<user, token, cleanupSock, chatVars, socketRef, onlineUsers, isConnecting>>

\* user.username in the handlers' closure: the identity the socket was created for
Owner == "carol"

\* data?.username && data.username !== user.username
NamedOther(name) == name # NoUser /\ name # Owner

\* A user_joined handler that does not look at the tracker
ShowsJoin_Always(name) == NamedOther(name)

\* The notification is shown: another user's name that is not tracked (274-276)
ShowsJoin(name) == NamedOther(name) /\ name \notin joinedUsers

OnUserJoined(s, name) ==
    /\ sock[s] = "connected"
    /\ LET show == ShowsJoin(name)
       IN  /\ show => Len(timers) < MaxTimers
           /\ joinedUsers' = IF show THEN joinedUsers \cup {name} ELSE joinedUsers
           /\ timers' = IF show
                        THEN Append(timers, Timer("expire", name, "", TrackerExpiry, FALSE, FALSE))
                        ELSE timers
           /\ notes' = IF show THEN <<"joined the room">> ELSE <<>>
           /\ last' = Step("user_joined", name,
                           IF show THEN "shown" ELSE IF NamedOther(name) THEN "duplicate" ELSE "ignored")
    /\ out' = <<>>
    /\ UNCHANGED <<authVars, chatVars, sock, socketRef, connected, onlineUsers, isConnecting,
                   socketInitialized, roomJoinInProgress, currentRoom,
                   lastJoinedRoom, announced>>

OnUserLeft(s, name) ==
    /\ sock[s] = "connected"
    /\ joinedUsers' = IF NamedOther(name) THEN joinedUsers \ {name} ELSE joinedUsers
    /\ notes' = IF NamedOther(name) THEN <<"left the room">> ELSE <<>>
    /\ out' = <<>>
    /\ last' = Step("user_left", name, IF NamedOther(name) THEN "shown" ELSE "ignored")
    /\ UNCHANGED <<authVars, chatVars, sock, socketRef, connected, onlineUsers, isConnecting,
                   socketInitialized, roomJoinInProgress, currentRoom,
                   lastJoinedRoom, timers, announced>>

\* ------------------------------------------------------------------ roster
\* Rosters the server sends
Rosters == {<<"alice">>, <<"carol", "alice">>}

\* An online_users payload: what kind of value it is, its items when it is an
\* array, and the kind and items of its `users` property when it is an object
Payload(kind, items, usersKind, usersItems) ==
    [kind |-> kind, items |-> items, usersKind |-> usersKind, usersItems |-> usersItems]

RawList(L) == Payload("array", L, "absent", <<>>)

Wrapped(L) == Payload("object", <<>>, "array", L)

\* null, a string, an object without `users`, an object whose `users` is a string
OtherPayloads ==
    {Payload("null", <<>>, "absent", <<>>), Payload("string", <<>>, "absent", <<>>),
     Payload("object", <<>>, "absent", <<>>), Payload("object", <<>>, "string", <<>>)}

Payloads == {RawList(L) : L \in Rosters} \cup {Wrapped(L) : L \in Rosters} \cup OtherPayloads

\* Array.isArray(data) (line 254)
IsRawList(data) == data.kind = "array"

\* data && Array.isArray(data.users) (line 256)
HasUsersList(data) == data.kind # "null" /\ data.usersKind = "array"

\* A handler that knows the array format only
RosterOf_RawOnly(data) == IF IsRawList(data) THEN data.items ELSE <<>>

\* The roster the handler sets (lines 253-265)
RosterOf(data) ==
    IF IsRawList(data) THEN data.items
    ELSE IF HasUsersList(data) THEN data.usersItems
    ELSE <<>>

OnOnlineUsers(s, data) ==
    /\ sock[s] = "connected"
    /\ onlineUsers' = RosterOf(data)
    /\ out' = <<>>
    /\ notes' = <<>>
    /\ last' = Step("online_users", data.kind,
                    IF IsRawList(data) \/ HasUsersList(data) THEN "updated" ELSE "unexpected")
    /\ UNCHANGED <<authVars, chatVars, sock, socketRef, connected, isConnecting, socketInitialized,
                   roomJoinInProgress, currentRoom, lastJoinedRoom, joinedUsers,
                   timers, announced>>

\* ------------------------------------------------------- room operations
\* joinRoom's requirements (line 408)
JoinRejected(r) ==
    socketRef = 0 \/ user = NoUser \/ r = NoRoom \/ ~connected \/ ~socketInitialized

\* "Room join already in progress" (line 423)
JoinInProgressFor(r) == roomJoinInProgress /\ lastJoinedRoom = r

\* A joinRoom without the "already in room" test
AlreadyInRoom_Never(r) == FALSE

\* "Already in room" (line 429)
AlreadyInRoom(r) == currentRoom = r /\ ~roomJoinInProgress

\* What a starting join sends (lines 446-450)
JoinEmits(r) == <<Emit("user_connected", user, r, "", socketRef)>>

JoinTimers_NoCancel(r) ==
    timers
        \o <<Timer("roster", r, "", RosterDelay, connected, FALSE),
             Timer("join_timeout", r, "", JoinTimeoutDelay, FALSE, TRUE)>>

\* The outstanding timers other than the join timeout, which has one slot
OtherTimers == SelectSeq(timers, LAMBDA t : t.kind # "join_timeout")

\* The timers after joinRoom: the previous join timeout is cancelled (441-444),
\* the roster request (453-457) and the new join timeout (460-463) are started
JoinTimers(r) ==
    ClearJoinTimeout(timers)
        \o <<Timer("roster", r, "", RosterDelay, connected, FALSE),
             Timer("join_timeout", r, "", JoinTimeoutDelay, FALSE, TRUE)>>

JoinRoom(r) ==
    /\ IF JoinRejected(r)
       THEN /\ notes' = IF ~connected THEN <<"Not connected to server">> ELSE <<>>
            /\ out' = <<>>
            /\ last' = Step("joinRoom", r, "rejected")
            /\ UNCHANGED <<managerState, timers, announced>>
       ELSE IF JoinInProgressFor(r) \/ AlreadyInRoom(r)
       THEN /\ notes' = <<>>
            /\ out' = <<>>
            /\ last' = Step("joinRoom", r, IF JoinInProgressFor(r) THEN "in_progress" ELSE "already")
            /\ UNCHANGED <<managerState, timers, announced>>
       ELSE     /\ Len(OtherTimers) + 2 <= MaxTimers
                /\ roomJoinInProgress' = TRUE
                /\ lastJoinedRoom' = r
                /\ currentRoom' = r
                /\ timers' = JoinTimers(r)
                /\ out' = JoinEmits(r)
                /\ announced' = announced \cup Announces(JoinEmits(r))
                /\ notes' = <<>>
                /\ last' = Step("joinRoom", r, "started")
                /\ UNCHANGED <<socketRef, connected, onlineUsers, isConnecting,
                               socketInitialized, joinedUsers>>
    /\ UNCHANGED <<authVars, chatVars, sock>>

\* leaveRoom's requirements (line 467)
LeaveAccepted(r) == socketRef # 0 /\ user # NoUser /\ r # NoRoom

\* What an accepted leaveRoom sends (477-480): the emit is outside the
\* `roomName === currentRoomRef.current` test
LeaveEmits(r) == <<Emit("leave", user, r, "", socketRef)>>

\* The timers leaveRoom leaves outstanding: it clears none
LeaveTimers(r) == timers

LeavePending_Kept(r) == roomJoinInProgress

\* roomJoinInProgressRef.current after leaveRoom(r) (470-472)
LeavePending(r) == IF r = currentRoom THEN FALSE ELSE roomJoinInProgress

LeaveRoom(r) ==
    /\ IF LeaveAccepted(r)
       THEN /\ roomJoinInProgress' = LeavePending(r)
            /\ currentRoom' = IF r = currentRoom THEN NoRoom ELSE currentRoom
            /\ lastJoinedRoom' = IF r = currentRoom THEN NoRoom ELSE lastJoinedRoom
            /\ timers' = LeaveTimers(r)
            /\ out' = LeaveEmits(r)
            /\ last' = Step("leaveRoom", r, IF r = currentRoom THEN "left" ELSE "other")
       ELSE /\ out' = <<>>
            /\ last' = Step("leaveRoom", r, "rejected")
            /\ UNCHANGED <<roomJoinInProgress, currentRoom, lastJoinedRoom, timers>>
    /\ notes' = <<>>
    /\ UNCHANGED <<authVars, chatVars, sock, socketRef, connected, onlineUsers, isConnecting,
                   socketInitialized, joinedUsers, announced>>

\* ------------------------------------------------------------ room messages
\* sendMessage's requirements (line 486)
SendAccepted(r, c) ==
    /\ socketRef # 0
    /\ user # NoUser
    /\ Trim(c) # ""
    /\ r # NoRoom
    /\ connected
    /\ socketInitialized

\* A sendMessage that rejects without telling why
SendMessageToast_Silent(c) == <<>>

\* The toast of a rejected sendMessage (lines 506-512)
SendMessageToast(c) ==
    IF ~connected THEN <<"Not connected to server">>
    ELSE IF ~socketInitialized THEN <<"Socket not initialized. Please refresh the page.">>
    ELSE IF Trim(c) = "" THEN <<"Message cannot be empty">>
    ELSE <<>>

\* A sendMessage that sends the content as typed
SendEmits_Untrimmed(r, c) == <<Emit("send_message", user, r, c, socketRef)>>

\* What an accepted sendMessage sends (lines 487-494)
SendEmits(r, c) == <<Emit("send_message", user, r, Trim(c), socketRef)>>

SendMessage(r, c) ==
    /\ out' = IF SendAccepted(r, c) THEN SendEmits(r, c) ELSE <<>>
    /\ notes' = IF SendAccepted(r, c) THEN <<>> ELSE SendMessageToast(c)
    /\ last' = StepWith("sendMessage", r, c, IF SendAccepted(r, c) THEN "true" ELSE "false")
    /\ UNCHANGED <<authVars, chatVars, sock, managerState, timers, announced>>

\* ---------------------------------------------------- private operations
\* The implicit initialisation both private operations perform (526-530, 556-560)
InitEmits == <<Emit("user_connected", user, DefaultRoom, "", socketRef)>>

JoinPrivateRoom(f) ==
    /\ LET ok == socketRef # 0 /\ user # NoUser /\ f # NoUser /\ connected
           init == ok /\ ~socketInitialized
       IN  /\ init => Len(timers) < MaxTimers
           /\ out' = IF init THEN InitEmits
                     ELSE IF ok THEN <<Emit("join_private", NoUser, f, "", socketRef)>>
                     ELSE <<>>
           /\ socketInitialized' = IF init THEN TRUE ELSE socketInitialized
           /\ timers' = IF init
                        THEN Append(timers, Timer("join_private", f, "", PrivateInitDelay, FALSE, FALSE))
                        ELSE timers
           /\ announced' = IF init THEN announced \cup Announces(InitEmits) ELSE announced
           /\ notes' = IF ~ok /\ ~connected THEN <<"Not connected to server">> ELSE <<>>
           /\ last' = Step("joinPrivateRoom", f,
                           IF init THEN "initializing" ELSE IF ok THEN "joined" ELSE "rejected")
    /\ UNCHANGED <<authVars, chatVars, sock, socketRef, connected, onlineUsers, isConnecting,
                   roomJoinInProgress, currentRoom, lastJoinedRoom, joinedUsers>>

SendPrivateMessage(to, c) ==
    /\ LET ok == socketRef # 0 /\ user # NoUser /\ Trim(c) # "" /\ to # NoUser /\ connected
           init == ok /\ ~socketInitialized
           \* the failure path's "attempting to initialize" (583-592)
           late == ~ok /\ connected /\ ~socketInitialized /\ socketRef # 0 /\ user # NoUser
       IN  /\ init => Len(timers) < MaxTimers
           /\ out' = IF init \/ late THEN InitEmits
                     ELSE IF ok THEN <<Emit("send_private_message", NoUser, to, Trim(c), socketRef)>>
                     ELSE <<>>
           /\ socketInitialized' = IF init \/ late THEN TRUE ELSE socketInitialized
           /\ timers' = IF init
                        THEN Append(timers, Timer("send_private", to, Trim(c), PrivateInitDelay, FALSE, FALSE))
                        ELSE timers
           /\ announced' = IF init \/ late THEN announced \cup Announces(InitEmits) ELSE announced
           /\ notes' = IF ok THEN <<>>
                       ELSE IF ~connected THEN <<"Not connected to server">>
                       ELSE IF ~socketInitialized THEN <<"Initializing connection...">>
                       ELSE IF Trim(c) = "" THEN <<"Message cannot be empty">>
                       ELSE <<>>
           /\ last' = StepWith("sendPrivateMessage", to, c, IF ok THEN "true" ELSE "false")
    /\ UNCHANGED <<authVars, chatVars, sock, socketRef, connected, onlineUsers, isConnecting,
                   roomJoinInProgress, currentRoom, lastJoinedRoom, joinedUsers>>

\* -------------------------------------------------------------- chat pages
\* A message as a chat page holds it
Message(id, by) == [id |-> id, by |-> by]

\* The id of an optimistic append: `local-${Date.now()}`, never a server id
LocalId(t) == 0 - t

\* receive_message payloads
RoomMessages ==
    {[id |-> i, username |-> "alice", room_name |-> r] : i \in MsgIds, r \in RoomArgs}

\* receive_private_message payloads
PrivateMessages ==
    {[id |-> i, from |-> pair[1], to |-> pair[2]] :
        i \in MsgIds, pair \in {<<"alice", "carol">>, <<"carol", "alice">>, <<"alice", "bob">>}}

\* What the REST history of a chat holds (the empty one also stands for a failed
\* or timed-out load)
Histories == {<<>>, <<Message(1, "alice")>>, <<Message(1, "alice"), Message(2, "alice")>>}

\* prev.some(msg => msg.id === message.id)
IsDuplicate(prev, id) == \E i \in 1..Len(prev) : prev[i].id = id

\* An updater that appends whatever arrives
AppendNew_Always(prev, m) == Append(prev, m)

\* The setMessages updater of both chat pages (App.js 186-194, PrivateChat 91-113)
AppendNew(prev, m) == IF IsDuplicate(prev, m.id) THEN prev ELSE Append(prev, m)

\* The route shows Chat for room r; a Chat that is already mounted keeps its
\* messages until the history of r is loaded
OpenChat(r) ==
    /\ user # NoUser
    /\ openChat # RoomChat(r)
    /\ openChat' = RoomChat(r)
    /\ messages' = IF openChat.kind = "room" THEN messages ELSE <<>>
    /\ out' = <<>>
    /\ notes' = <<>>
    /\ last' = Step("Chat", r, "open")
    /\ UNCHANGED <<authVars, sock, managerState, timers, announced, now, pageVars, subVars>>

\* The route shows PrivateChat for friend f
OpenPrivateChat(f) ==
    /\ user # NoUser
    /\ openChat # PrivateChat(f)
    /\ openChat' = PrivateChat(f)
    /\ messages' = <<>>
    /\ out' = <<>>
    /\ notes' = <<>>
    /\ last' = Step("PrivateChat", f, "open")
    /\ UNCHANGED <<authVars, sock, managerState, timers, announced, now, pageVars, subVars>>

\* The chat page is unmounted
CloseChat ==
    /\ openChat # NoChat
    /\ openChat' = NoChat
    /\ messages' = <<>>
    /\ out' = <<>>
    /\ notes' = <<>>
    /\ last' = Step(openChat.kind, openChat.target, "closed")
    /\ UNCHANGED <<authVars, sock, managerState, timers, announced, now, pageVars, subVars>>

\* Chat's loadMessages ends (App.js 69-117)
LoadMessages(H) ==
    /\ openChat.kind = "room"
    /\ messages' = H
    /\ out' = <<>>
    /\ notes' = <<>>
    /\ last' = Step("loadMessages", openChat.target, "loaded")
    /\ UNCHANGED <<authVars, sock, managerState, timers, announced, openChat, now, pageVars, subVars>>

\* PrivateChat's loadData ends (PrivateChat 35-69)
LoadPrivateMessages(H) ==
    /\ openChat.kind = "private"
    /\ messages' = H
    /\ out' = <<>>
    /\ notes' = <<>>
    /\ last' = Step("loadData", openChat.target, "loaded")
    /\ UNCHANGED <<authVars, sock, managerState, timers, announced, openChat, now, pageVars, subVars>>

\* Chat.handleNewMessage (App.js 174-195), called for a receive_message event
\* of a connected socket
OnReceiveMessage(s, m) ==
    /\ sock[s] = "connected"
    /\ openChat.kind = "room"
    /\ LET mine == m.room_name # NoRoom /\ m.room_name = openChat.target
       IN  /\ messages' = IF mine THEN AppendNew(messages, Message(m.id, m.username))
                          ELSE messages
           /\ last' = Step("receive_message", m.room_name,
                           IF ~mine THEN "ignored"
                           ELSE IF IsDuplicate(messages, m.id) THEN "duplicate" ELSE "appended")
    /\ out' = <<>>
    /\ notes' = <<>>
    /\ UNCHANGED <<authVars, sock, managerState, timers, announced, openChat, now, pageVars, subVars>>

\* PrivateChat.handlePrivateMessage (PrivateChat 83-117)
OnReceivePrivateMessage(s, m) ==
    /\ sock[s] = "connected"
    /\ openChat.kind = "private"
    /\ LET friend == openChat.target
           mine == \/ m.from = friend /\ m.to = user
                   \/ m.to = friend /\ m.from = user
       IN  /\ messages' = IF mine THEN AppendNew(messages, Message(m.id, m.from))
                          ELSE messages
           /\ last' = Step("receive_private_message", m.from,
                           IF ~mine THEN "ignored"
                           ELSE IF IsDuplicate(messages, m.id) THEN "duplicate" ELSE "appended")
    /\ out' = <<>>
    /\ notes' = <<>>
    /\ UNCHANGED <<authVars, sock, managerState, timers, announced, openChat, now, pageVars, subVars>>

PostsViaRest_Always(messageSent) == TRUE

\* Whether handleSendMessage posts through the REST API: `if (!messageSent)`
\* (App.js 254, PrivateChat 161)
PostsViaRest(messageSent) == ~messageSent

\* Chat.handleSendMessage (App.js 238-283): the socket when connected and
\* sendMessage returns true, else the REST post followed by an optimistic
\* append; posted tells whether the post succeeded
ChatSend(c, posted) ==
    /\ openChat.kind = "room"
    /\ Trim(c) # ""
    /\ LET r == openChat.target
           viaSocket == connected /\ SendAccepted(r, c)
           rest == PostsViaRest(viaSocket)
       IN  /\ ~rest => posted
           /\ (rest /\ posted) => now < MaxLocal
           /\ out' = IF viaSocket THEN SendEmits(r, Trim(c)) ELSE <<>>
           /\ notes' = (IF connected /\ ~viaSocket THEN SendMessageToast(Trim(c)) ELSE <<>>)
                          \o (IF posted THEN <<>> ELSE <<"Failed to send message">>)
           /\ messages' = IF rest /\ posted
                          THEN Append(messages, Message(LocalId(now + 1), user))
                          ELSE messages
           /\ now' = IF rest /\ posted THEN now + 1 ELSE now
           /\ last' = StepWith("Chat.send", r, c,
                               IF viaSocket /\ rest THEN "both"
                               ELSE IF viaSocket THEN "socket"
                               ELSE IF posted THEN "rest" ELSE "failed")
    /\ UNCHANGED <<authVars, sock, managerState, timers, announced, openChat, pageVars, subVars>>

\* sendPrivateMessage's requirements (line 552)
PrivateSendAccepted(to, c) ==
    socketRef # 0 /\ user # NoUser /\ Trim(c) # "" /\ to # NoUser /\ connected

\* PrivateChat.handleSendMessage (PrivateChat 145-190): as Chat's, through
\* sendPrivateMessage
PrivateChatSend(c, posted) ==
    /\ openChat.kind = "private"
    /\ Trim(c) # ""
    /\ LET to == openChat.target
           viaSocket == connected /\ PrivateSendAccepted(to, Trim(c))
           init == viaSocket /\ ~socketInitialized
           late == connected /\ ~viaSocket /\ ~socketInitialized /\ socketRef # 0 /\ user # NoUser
           rest == PostsViaRest(viaSocket)
       IN  /\ ~rest => posted
           /\ (rest /\ posted) => now < MaxLocal
           /\ init => Len(timers) < MaxTimers
           /\ out' = IF init \/ late THEN InitEmits
                     ELSE IF viaSocket
                     THEN <<Emit("send_private_message", NoUser, to, Trim(c), socketRef)>>
                     ELSE <<>>
           /\ socketInitialized' = IF init \/ late THEN TRUE ELSE socketInitialized
           /\ timers' = IF init
                        THEN Append(timers, Timer("send_private", to, Trim(c), PrivateInitDelay, FALSE, FALSE))
                        ELSE timers
           /\ announced' = IF init \/ late THEN announced \cup Announces(InitEmits) ELSE announced
           /\ notes' = (IF connected /\ ~viaSocket /\ ~socketInitialized
                        THEN <<"Initializing connection...">> ELSE <<>>)
                          \o (IF posted THEN <<>> ELSE <<"Failed to send message">>)
           /\ messages' = IF rest /\ posted
                          THEN Append(messages, Message(LocalId(now + 1), user))
                          ELSE messages
           /\ now' = IF rest /\ posted THEN now + 1 ELSE now
           /\ last' = StepWith("PrivateChat.send", to, c,
                               IF viaSocket /\ rest THEN "both"
                               ELSE IF viaSocket THEN "socket"
                               ELSE IF posted THEN "rest" ELSE "failed")
    /\ UNCHANGED <<authVars, sock, socketRef, connected, onlineUsers, isConnecting,
                   roomJoinInProgress, currentRoom, lastJoinedRoom, joinedUsers, openChat, pageVars, subVars>>

\* ------------------------------------- Chat's room management (App.js 133-168)
\* The manager references joinRoom and leaveRoom read and write, the timers,
\* and what a run of the effect has emitted and shown so far
RoomRefs == [pending |-> roomJoinInProgress, cur |-> currentRoom, lastj |-> lastJoinedRoom,
             timers |-> timers, out |-> <<>>, notes |-> <<>>]

\* leaveRoom(r) called from the effect (SocketContext.js 466-482)
LeaveRoomIn(m, r) ==
    IF LeaveAccepted(r)
    THEN [m EXCEPT !.pending = IF r = m.cur THEN FALSE ELSE @,
                   !.lastj = IF r = m.cur THEN NoRoom ELSE @,
                   !.cur = IF r = m.cur THEN NoRoom ELSE @,
                   !.out = @ \o LeaveEmits(r)]
    ELSE m

\* Whether joinRoom(r) called from the effect starts a join (408-432)
JoinStartsIn(m, r) ==
    /\ ~JoinRejected(r)
    /\ ~(m.pending /\ m.lastj = r)
    /\ ~(m.cur = r /\ ~m.pending)

\* joinRoom(r) called from the effect (SocketContext.js 407-464)
JoinRoomIn(m, r) ==
    IF JoinRejected(r)
    THEN [m EXCEPT !.notes = @ \o (IF ~connected THEN <<"Not connected to server">> ELSE <<>>)]
    ELSE IF JoinStartsIn(m, r)
    THEN [m EXCEPT !.pending = TRUE, !.lastj = r, !.cur = r,
                   !.timers = ClearJoinTimeout(@)
                                \o <<Timer("roster", r, "", RosterDelay, connected, FALSE),
                                     Timer("join_timeout", r, "", JoinTimeoutDelay, FALSE, TRUE)>>,
                   !.out = @ \o JoinEmits(r)]
    ELSE m

\* Whether the previous run of the effect returned a cleanup that leaves its
\* room (160-167): a run that returned early (134-137) registered none
CleanupLeaves == effectRoom # NoRoom /\ effectConnected /\ previousRoom = effectRoom

\* The cleanup of the previous run
RoomCleanup(m) == IF CleanupLeaves THEN LeaveRoomIn(m, effectRoom) ELSE m

\* roomInitializedRef.current after the cleanup (165)
CleanupInitialized == IF CleanupLeaves THEN FALSE ELSE roomInitialized

\* "Leave previous room if switching" (142-146)
SwitchesFrom(r) == previousRoom # NoRoom /\ previousRoom # r

\* Whether the body joins (149): the room is not initialized or it changed
BodyJoins(r) == ~CleanupInitialized \/ SwitchesFrom(r) \/ previousRoom # r

\* The body of the effect for room r, run after the cleanup (134-157)
RoomBody(m, r) ==
    IF ~connected
    THEN m
    ELSE LET left == IF SwitchesFrom(r) THEN LeaveRoomIn(m, previousRoom) ELSE m
         IN  IF BodyJoins(r) THEN JoinRoomIn(left, r) ELSE left

\* Chat's room effect runs because the route shows room r for the first time,
\* the route's room changed to r, or `connected` changed: React runs the
\* cleanup of the previous run, then the body
ChatRoomEffect(r) ==
    /\ user # NoUser
    /\ effectRoom # r \/ effectConnected # connected
    /\ LET m == RoomBody(RoomCleanup(RoomRefs), r)
       IN  /\ Len(m.timers) <= MaxTimers
           /\ roomJoinInProgress' = m.pending
           /\ currentRoom' = m.cur
           /\ lastJoinedRoom' = m.lastj
           /\ timers' = m.timers
           /\ out' = m.out
           /\ notes' = m.notes
           /\ announced' = announced \cup Announces(m.out)
    /\ roomInitialized' = IF connected THEN TRUE ELSE CleanupInitialized
    /\ previousRoom' = IF connected THEN r ELSE previousRoom
    /\ effectRoom' = r
    /\ effectConnected' = connected
    /\ last' = Step("Chat.room", r,
                    IF effectRoom = NoRoom THEN "mounted"
                    ELSE IF effectRoom # r THEN "changed" ELSE "rerun")
    /\ UNCHANGED <<authVars, sock, socketRef, connected, onlineUsers, isConnecting,
                   socketInitialized, joinedUsers, openChat, messages, now, subVars>>

\* Chat is unmounted: the cleanup runs and the component's refs are gone
ChatUnmount ==
    /\ effectRoom # NoRoom
    /\ LET m == RoomCleanup(RoomRefs)
       IN  /\ roomJoinInProgress' = m.pending
           /\ currentRoom' = m.cur
           /\ lastJoinedRoom' = m.lastj
           /\ out' = m.out
           /\ notes' = m.notes
    /\ previousRoom' = NoRoom
    /\ roomInitialized' = FALSE
    /\ effectRoom' = NoRoom
    /\ effectConnected' = FALSE
    /\ last' = Step("Chat.room", effectRoom, "unmounted")
    /\ UNCHANGED <<authVars, sock, socketRef, connected, onlineUsers, isConnecting,
                   socketInitialized, joinedUsers, timers, announced, openChat, messages, now, subVars>>

\* ------------------------------------- subscriptions (SocketContext.js 601-656)
\* onMessage / onPrivateMessage / onUserJoined / onUserLeft(callback): the
\* handler is registered on socketRef.current if there is one
Registered(e) == [ev |-> e, on |-> socketRef, live |-> socketRef # 0, cancelled |-> FALSE]

Subscribe(x, e) ==
    /\ user # NoUser
    /\ sub[x].ev = "none"
    /\ sub' = [sub EXCEPT ![x] = Registered(e)]
    /\ delivered' = NoDelivery
    /\ out' = <<>>
    /\ notes' = <<>>
    /\ last' = Step("subscribe", e, IF socketRef # 0 THEN "registered" ELSE "noop")
    /\ UNCHANGED <<authVars, sock, managerState, timers, announced, openChat, messages, now,
                   previousRoom, roomInitialized, effectRoom, effectConnected>>

\* socketRef.current.off(event, handler): the handler of x leaves the listener
\* list of the socket socketRef.current names now, if it is registered there
Unregistered(x) ==
    [sub EXCEPT ![x].live = IF sub[x].on = socketRef THEN FALSE ELSE @]

\* The cleanup a subscription returned is called: the no-op one, or the one
\* that calls off when socketRef.current is not null
Cancel(x) ==
    /\ sub[x].ev # "none"
    /\ ~sub[x].cancelled
    /\ LET off == sub[x].on # 0 /\ socketRef # 0
           after == IF off THEN Unregistered(x) ELSE sub
       IN  /\ sub' = [after EXCEPT ![x].cancelled = TRUE]
           /\ last' = Step("cancel", sub[x].ev, IF off THEN "off" ELSE "noop")
    /\ delivered' = NoDelivery
    /\ out' = <<>>
    /\ notes' = <<>>
    /\ UNCHANGED <<authVars, sock, managerState, timers, announced, openChat, messages, now,
                   previousRoom, roomInitialized, effectRoom, effectConnected>>

\* The subscribers whose handlers socket s calls for event e, in some order of
\* its listener list (each handler is in the list once)
RECURSIVE SeqOf(_)
SeqOf(S) == IF S = {} THEN <<>>
            ELSE LET x == CHOOSE y \in S : TRUE IN <<x>> \o SeqOf(S \ {x})

Listeners(s, e) == SeqOf({x \in Subscribers : sub[x].ev = e /\ sub[x].on = s /\ sub[x].live})

\* Socket s dispatches event e to the handlers subscribed through the manager
Deliver(s, e) ==
    /\ sock[s] = "connected"
    /\ delivered' = [on |-> s, to |-> Listeners(s, e)]
    /\ out' = <<>>
    /\ notes' = <<>>
    /\ last' = Step("deliver", e, IF Listeners(s, e) = <<>> THEN "unheard" ELSE "heard")
    /\ UNCHANGED <<authVars, sock, managerState, timers, announced, openChat, messages, now,
                   previousRoom, roomInitialized, effectRoom, effectConnected, sub>>

\* ------------------------------------------------------------------ timers
\* The delayed roster request of joinRoom (453-457); `connected` is the value
\* the callback closed over when joinRoom ran
RosterEmits(t) ==
    IF socketRef # 0 /\ t.conn /\ currentRoom = t.arg
    THEN <<Emit("who_is_online", NoUser, t.arg, "", socketRef)>>
    ELSE <<>>

\* The delayed private emits (533-539, 563-571)
PrivateEmits(t) ==
    IF socketRef = 0 THEN <<>>
    ELSE IF t.kind = "join_private"
    THEN <<Emit("join_private", NoUser, t.arg, "", socketRef)>>
    ELSE <<Emit("send_private_message", NoUser, t.arg, t.body, socketRef)>>

TimerEmits(t) ==
    CASE t.kind = "roster" -> RosterEmits(t)
      [] t.kind \in {"join_private", "send_private"} -> PrivateEmits(t)
      [] OTHER -> <<>>

\* A join timeout that leaves the flag as it is
JoinTimeoutResult_Kept == roomJoinInProgress

\* roomJoinInProgressRef.current after the join timeout fires (460-463)
JoinTimeoutResult == FALSE

\* Timers fire in the order of their deadlines: the i-th may fire once no older
\* timer with a delay that is not longer is outstanding
Due(i) == \A j \in 1..(i - 1) : timers[j].delay > timers[i].delay

FireTimer(i) ==
    /\ i \in 1..Len(timers)
    /\ Due(i)
    /\ LET t == timers[i]
       IN  /\ timers' = Without(timers, i)
           /\ roomJoinInProgress' = IF t.kind = "join_timeout" THEN JoinTimeoutResult ELSE roomJoinInProgress
           /\ joinedUsers' = IF t.kind = "expire" THEN joinedUsers \ {t.arg} ELSE joinedUsers
           /\ out' = TimerEmits(t)
           /\ last' = Step(t.kind, t.arg, IF TimerEmits(t) = <<>> THEN "quiet" ELSE "emitted")
    /\ notes' = <<>>
    /\ UNCHANGED <<authVars, chatVars, sock, socketRef, connected, onlineUsers, isConnecting,
                   socketInitialized, currentRoom, lastJoinedRoom, announced>>

Next ==
    \/ \E u \in Users : Login(u)
    \/ Logout
    \/ \E s \in SockIds : OnConnect(s)
    \/ \E s \in SockIds, kind \in ErrorKinds : OnConnectError(s, kind)
    \/ \E s \in SockIds, reason \in DisconnectReasons : OnDisconnect(s, reason)
    \/ \E s \in SockIds : OnReconnect(s)
    \/ \E s \in SockIds : OnConnectionConfirmed(s)
    \/ ForceReconnect
    \/ \E s \in SockIds, name \in JoinNames \cup {NoUser} : OnUserJoined(s, name)
    \/ \E s \in SockIds, name \in JoinNames \cup {NoUser} : OnUserLeft(s, name)
    \/ \E r \in RoomArgs : JoinRoom(r)
    \/ \E r \in RoomArgs : LeaveRoom(r)
    \/ \E f \in Peers \cup {NoUser} : JoinPrivateRoom(f)
    \/ \E to \in Peers \cup {NoUser}, c \in Contents : SendPrivateMessage(to, c)
    \/ \E i \in 1..Len(timers) : FireTimer(i)

Spec == Init /\ [][Next]_vars

\* sendMessage reads the connection's state and writes none of it, and no send
\* operation reads the notification tracker: the operations that send are
\* explored with every operation and event of the manager but the tracker's
SendNext ==
    \/ \E u \in Users : Login(u)
    \/ Logout
    \/ \E s \in SockIds : OnConnect(s)
    \/ \E s \in SockIds, kind \in ErrorKinds : OnConnectError(s, kind)
    \/ \E s \in SockIds, reason \in DisconnectReasons : OnDisconnect(s, reason)
    \/ \E s \in SockIds : OnReconnect(s)
    \/ \E s \in SockIds : OnConnectionConfirmed(s)
    \/ ForceReconnect
    \/ \E r \in RoomArgs : JoinRoom(r)
    \/ \E r \in RoomArgs : LeaveRoom(r)
    \/ \E r \in RoomArgs, c \in Contents : SendMessage(r, c)
    \/ \E f \in Peers \cup {NoUser} : JoinPrivateRoom(f)
    \/ \E to \in Peers \cup {NoUser}, c \in Contents : SendPrivateMessage(to, c)
    \/ \E i \in 1..Len(timers) : FireTimer(i)

SendSpec == Init /\ [][SendNext]_vars

\* The roster is written by the online_users handler and the effect only and is
\* read by no operation of the manager: its handler is explored together with
\* the connection's life cycle
RosterNext ==
    \/ \E u \in Users : Login(u)
    \/ Logout
    \/ \E s \in SockIds : OnConnect(s)
    \/ \E s \in SockIds, reason \in DisconnectReasons : OnDisconnect(s, reason)
    \/ \E s \in SockIds : OnReconnect(s)
    \/ \E s \in SockIds, data \in Payloads : OnOnlineUsers(s, data)

RosterSpec == Init /\ [][RosterNext]_vars

\* The chat pages hold their messages themselves and the manager reads none of
\* it: their handlers are explored together with the connection's life cycle
ChatNext ==
    \/ \E u \in Users : Login(u)
    \/ \E s \in SockIds : OnConnect(s)
    \/ \E s \in SockIds, reason \in DisconnectReasons : OnDisconnect(s, reason)
    \/ \E s \in SockIds : OnReconnect(s)
    \/ \E r \in Rooms : OpenChat(r)
    \/ \E f \in Peers : OpenPrivateChat(f)
    \/ CloseChat
    \/ \E H \in Histories : LoadMessages(H)
    \/ \E H \in Histories : LoadPrivateMessages(H)
    \/ \E s \in SockIds, m \in RoomMessages : OnReceiveMessage(s, m)
    \/ \E s \in SockIds, m \in PrivateMessages : OnReceivePrivateMessage(s, m)
    \/ \E c \in Contents, posted \in BOOLEAN : ChatSend(c, posted)
    \/ \E c \in Contents, posted \in BOOLEAN : PrivateChatSend(c, posted)

ChatSpec == Init /\ [][ChatNext]_vars

\* Timers fire: the oldest outstanding timer is never postponed for ever
RoomNext ==
    \/ \E u \in Users : Login(u)
    \/ \E s \in SockIds : OnConnect(s)
    \/ \E s \in SockIds, reason \in DisconnectReasons : OnDisconnect(s, reason)
    \/ \E s \in SockIds : OnReconnect(s)
    \/ \E s \in SockIds : OnConnectionConfirmed(s)
    \/ \E r \in Rooms : ChatRoomEffect(r)
    \/ ChatUnmount
    \/ \E i \in 1..Len(timers) : FireTimer(i)

\* The connection life cycle and Chat's room management
RoomSpec == Init /\ [][RoomNext]_vars

\* One reason the handler reconnects on by hand and one left to the transport's
\* retries (140-164)
SubReasons == {"io server disconnect", "transport close"}

SubNext ==
    \/ \E u \in Users : Login(u)
    \/ Logout
    \/ \E s \in SockIds : OnConnect(s)
    \/ \E s \in SockIds, reason \in SubReasons : OnDisconnect(s, reason)
    \/ \E s \in SockIds : OnReconnect(s)
    \/ \E x \in Subscribers, e \in SubEvents : Subscribe(x, e)
    \/ \E x \in Subscribers : Cancel(x)
    \/ \E s \in SockIds, e \in SubEvents : Deliver(s, e)

\* The connection life cycle and the subscriptions
SubSpec == Init /\ [][SubNext]_vars

RetryNext ==
    \/ \E u \in Users : Login(u)
    \/ Logout
    \/ \E s \in SockIds : OnConnect(s)
    \/ \E s \in SockIds, kind \in ErrorKinds : OnAttemptFailed(s, kind)
    \/ \E s \in SockIds, reason \in DisconnectReasons : OnDisconnect(s, reason)
    \/ \E s \in SockIds : OnReconnect(s)
    \/ ForceReconnect

\* The connection life cycle with the reconnection attempts counted
RetrySpec == Init /\ [][RetryNext]_vars

\* An attempt of socket s ends: it connects or it fails
AttemptEnds(s) ==
    \/ OnConnect(s)
    \/ OnReconnect(s)
    \/ \E kind \in ErrorKinds : OnAttemptFailed(s, kind)

\* Every attempt ends within the connection timeout (line 51)
LiveRetrySpec == RetrySpec /\ \A s \in SockIds : WF_vars(AttemptEnds(s))

LiveSpec == Spec /\ WF_vars(FireTimer(1))

\* ------------------------------------------------------------- properties
\* joinRoom's requirements hold: a live, initialized connection of a user
LiveConnection == socketRef # 0 /\ connected /\ socketInitialized /\ user # NoUser

\* The user_connected announcements for room r among the emissions seq
JoinsOf(seq, r) == {i \in 1..Len(seq) : seq[i].ev = "user_connected" /\ seq[i].arg = r}

\* The leave announcements for room r among the emissions seq
LeavesOf(seq, r) == {i \in 1..Len(seq) : seq[i].ev = "leave" /\ seq[i].arg = r}

\* The step just taken is a joinRoom call that started a join
JoinStarted == last.op = "joinRoom" /\ last.res = "started"

\* C1: on a live connection a joinRoom(r) issued while r is the room being
\* joined or the current room (whether or not the pending flag has been cleared
\* since) emits nothing and changes no state; any other accepted joinRoom(r)
\* emits exactly one user_connected for r, so that a run of joinRoom(r) calls
\* announces r once.
C1_JoinRoomIdempotent ==
    [][\A r \in Rooms :
         (last'.op = "joinRoom" /\ last'.arg = r /\ LiveConnection)
            => IF currentRoom = r
               THEN out' = <<>> /\ UNCHANGED <<managerState, timers, announced>>
               ELSE /\ Cardinality(JoinsOf(out', r)) = 1
                    /\ Count(out', "user_connected") = 1]_vars

C1_Witness ==
    /\ last.op = "joinRoom"
    /\ last.res = "already"
    /\ currentRoom = last.arg
    /\ LiveConnection
    /\ out = <<>>

\* C2: a joinRoom(b) issued while the join to another room a is pending emits
\* exactly one leave for a and exactly one user_connected for b, and b is the
\* current room afterwards.
C2_SwitchLeavesPrevious ==
    [][\A a, b \in Rooms :
         (a # b /\ roomJoinInProgress /\ currentRoom = a /\ LiveConnection
              /\ last'.op = "joinRoom" /\ last'.arg = b)
            => /\ Cardinality(LeavesOf(out', a)) = 1
               /\ Cardinality(JoinsOf(out', b)) = 1
               /\ currentRoom' = b]_vars

\* C3: after a disconnect event the manager has no transport id, is not
\* initialized, has no current room, no pending join and an empty tracker.
C3_DisconnectClears ==
    last.op = "disconnect"
        => /\ SocketId = 0
           /\ ~socketInitialized
           /\ currentRoom = NoRoom
           /\ ~roomJoinInProgress
           /\ lastJoinedRoom = NoRoom
           /\ joinedUsers = {}

\* C4: initialized is false right after every connect and reconnect, and it is
\* true only if user_connected was emitted on the current socket since its
\* last connect.
C4_InitializedMeansAnnounced ==
    /\ last.op \in {"connect", "reconnect"} => ~socketInitialized
    /\ socketInitialized => socketRef \in announced

\* C5: every user_connected emission is made by a joinRoom call for that very
\* room, or by joinPrivateRoom or sendPrivateMessage for the default room; no
\* transport event handler and no timer emits one.
C5_NoAutoJoin ==
    \A i \in 1..Len(out) :
        out[i].ev = "user_connected"
            => \/ last.op = "joinRoom" /\ last.arg = out[i].arg
               \/ /\ last.op \in {"joinPrivateRoom", "sendPrivateMessage"}
                  /\ out[i].arg = DefaultRoom

C5_Witness ==
    /\ last.op \in {"connect", "reconnect"}
    /\ currentRoom # NoRoom
    /\ connected
    /\ out = <<>>

\* C6: on a live connection on which nothing has been announced since it
\* (re)connected, joinRoom(r) emits exactly one user_connected for r and makes
\* r the current room with the join pending, also when r was the current room
\* before the disconnect.
C6_RejoinAfterReconnect ==
    [][\A r \in Rooms :
         (last'.op = "joinRoom" /\ last'.arg = r /\ LiveConnection
              /\ socketRef \notin announced)
            => /\ Cardinality(JoinsOf(out', r)) = 1
               /\ currentRoom' = r
               /\ roomJoinInProgress']_vars

\* C7: an accepted leaveRoom(r) for the current room r clears the current room
\* and the pending join, leaves no join timeout outstanding and emits exactly
\* one leave for r.
C7_LeaveCurrentRoom ==
    [][\A r \in Rooms :
         (last'.op = "leaveRoom" /\ last'.arg = r /\ currentRoom = r
              /\ socketRef # 0 /\ user # NoUser)
            => /\ currentRoom' = NoRoom
               /\ ~roomJoinInProgress'
               /\ \A i \in 1..Len(timers') : timers'[i].kind # "join_timeout"
               /\ Len(out') = 1
               /\ Cardinality(LeavesOf(out', r)) = 1]_vars

\* C8: leaveRoom(r) for a room that is not the current room emits nothing and
\* leaves the current room, the pending join and the timers as they are.
C8_LeaveOtherRoomNoOp ==
    [][\A r \in RoomArgs :
         (last'.op = "leaveRoom" /\ last'.arg = r /\ currentRoom # r)
            => /\ out' = <<>>
               /\ UNCHANGED <<currentRoom, roomJoinInProgress, lastJoinedRoom, timers>>]_vars

\* C9: a pending join does not stay pending: from every state in which a join
\* is pending, the pending flag is eventually cleared unless a further joinRoom
\* call starts a join first, whatever the server sends.
C9_PendingJoinCleared ==
    (roomJoinInProgress /\ ~JoinStarted) ~> (~roomJoinInProgress \/ JoinStarted)

C9_Witness ==
    /\ last.op = "join_timeout"
    /\ ~roomJoinInProgress
    /\ currentRoom # NoRoom
    /\ connected

\* C10: the delayed roster request emits who_is_online for its room only if,
\* when it fires, the connection is live and that room is still the current
\* room.
C10_RosterRequestValidated ==
    (last.op = "roster" /\ out # <<>>)
        => /\ connected
           /\ socketRef # 0
           /\ currentRoom = last.arg

\* No live connection: the manager holds no transport or does not see it connected
NoLiveConnection == socketRef = 0 \/ ~connected

SendsOf(seq) == {i \in 1..Len(seq) : seq[i].ev \in {"send_message", "send_private_message"}}

\* The delayed private sends outstanding among the timers seq
DelayedSends(seq) == {i \in 1..Len(seq) : seq[i].kind = "send_private"}

\* C12: a sendMessage(r, c) or sendPrivateMessage(to, c) that returns true
\* sends exactly one event for the call, carrying the trimmed content and the
\* given target: either it emits it at once and schedules nothing, or it
\* schedules one delayed send with that content and target and emits no send
\* event itself; a call that returns false emits no send event and schedules
\* none. A delayed send emits at most its own event.
C12_OneEventPerSend ==
    [][/\ last'.op = "sendMessage"
            => IF last'.res = "true"
               THEN /\ out' = <<[ev |-> "send_message", usr |-> user, arg |-> last'.arg,
                                 body |-> Trim(last'.given), on |-> socketRef]>>
                    /\ timers' = timers
               ELSE SendsOf(out') = {} /\ timers' = timers
       /\ last'.op = "sendPrivateMessage"
            => IF last'.res = "true"
               THEN \/ /\ out' = <<[ev |-> "send_private_message", usr |-> NoUser,
                                    arg |-> last'.arg, body |-> Trim(last'.given),
                                    on |-> socketRef]>>
                       /\ timers' = timers
                    \/ /\ SendsOf(out') = {}
                       /\ Len(timers') = Len(timers) + 1
                       /\ SubSeq(timers', 1, Len(timers)) = timers
                       /\ timers'[Len(timers')].kind = "send_private"
                       /\ timers'[Len(timers')].arg = last'.arg
                       /\ timers'[Len(timers')].body = Trim(last'.given)
               ELSE SendsOf(out') = {} /\ DelayedSends(timers') = DelayedSends(timers)
       /\ last'.op = "send_private"
            => /\ Cardinality(SendsOf(out')) <= 1
               /\ Cardinality(DelayedSends(timers')) = Cardinality(DelayedSends(timers)) - 1]_vars

C12_Witness ==
    /\ last.op = "sendMessage"
    /\ last.res = "true"
    /\ Len(out) = 1
    /\ out[1].ev = "send_message"
    /\ last.given = " hi "
    /\ out[1].body = "hi"
    /\ out[1].arg = "Chat Room 2"

\* C13: every sendMessage or sendPrivateMessage call that is rejected although
\* the connection is there (blank content, no room or peer given, connection
\* not initialized) returns false and shows a notification.
C13_RejectionNotified ==
    (last.op \in {"sendMessage", "sendPrivateMessage"} /\ last.res = "false")
        => notes # <<>>

\* C14: sendMessage succeeds only after a join: on a live connection on which
\* no room membership has been announced since the last connect, sendMessage
\* returns false and emits nothing.
C14_SendRequiresJoin ==
    (last.op = "sendMessage" /\ connected /\ socketRef \notin announced)
        => last.res = "false" /\ out = <<>>

\* C15: a join_private or send_private_message event is emitted on a socket
\* only after a user_connected was emitted on that socket since its last
\* connect; joinPrivateRoom and sendPrivateMessage emit the private event at
\* once only in that case.
C15_PrivateAfterAnnouncement ==
    \A i \in 1..Len(out) :
        out[i].ev \in {"join_private", "send_private_message"}
            => out[i].on \in announced

\* The expiry timers outstanding for name among the timers seq
ExpiriesOf(seq, name) == {i \in 1..Len(seq) : seq[i].kind = "expire" /\ seq[i].arg = name}

\* C16: for a name other than the local user's, a user_joined event that
\* directly follows a user_joined event for the same name, or that finds the
\* name tracked, shows nothing and leaves the timers as they are (the window is
\* not extended); a user_joined event that arrives when every expiry timer for
\* the name has fired (5 s or more after the last shown notification) shows a
\* notification, tracks the name and starts one expiry timer of 5000 ms; the
\* expiry removes the name.
C16_FixedWindow ==
    [][\A name \in Peers :
         /\ (last'.op = "user_joined" /\ last'.arg = name)
              => /\ (name \in joinedUsers \/ (last.op = "user_joined" /\ last.arg = name))
                      => /\ notes' = <<>>
                         /\ last'.res = "duplicate"
                         /\ timers' = timers
                         /\ joinedUsers' = joinedUsers
                 /\ ExpiriesOf(timers, name) = {}
                      => /\ notes' = <<"joined the room">>
                         /\ last'.res = "shown"
                         /\ name \in joinedUsers'
                         /\ timers' = Append(timers, [kind |-> "expire", arg |-> name, body |-> "",
                                                      delay |-> 5000, conn |-> FALSE, ref |-> FALSE])
         /\ (last'.op = "expire" /\ last'.arg = name) => name \notin joinedUsers']_vars

C16_Witness ==
    /\ last.op = "user_joined"
    /\ last.res = "duplicate"
    /\ last.arg = "alice"
    /\ "alice" \in joinedUsers
    /\ ExpiriesOf(timers, "alice") # {}
    /\ notes = <<>>

\* C17: two 'joined the room' notifications for one name are never shown less
\* than 5 s apart: every shown notification starts a 5000 ms expiry timer, so
\* at no time are two expiry timers for the same name outstanding.
C17_NotificationsSpaced ==
    \A name \in Peers : Cardinality(ExpiriesOf(timers, name)) <= 1

\* C18: the roster after an online_users event depends on the payload only: a
\* raw list L and an object {users: L} both make L the roster, whatever the
\* roster was, and every other payload makes the roster empty; the handler
\* ends normally in each case.
C18_RosterFromPayload ==
    [][\A s \in SockIds :
         /\ \A L \in Rosters :
              /\ OnOnlineUsers(s, RawList(L)) => onlineUsers' = L /\ last'.res = "updated"
              /\ OnOnlineUsers(s, Wrapped(L)) => onlineUsers' = L /\ last'.res = "updated"
         /\ \A data \in OtherPayloads :
              OnOnlineUsers(s, data) => onlineUsers' = <<>> /\ last'.res = "unexpected"]_vars

C18_Witness ==
    /\ last.op = "online_users"
    /\ last.arg = "object"
    /\ last.res = "updated"
    /\ onlineUsers = <<"carol", "alice">>

\* C19: a disconnect event with reason 'io server disconnect' leaves the socket
\* connecting again (the handler called connect() itself), one with any other
\* reason the transport gives leaves it waiting for the transport's retry, and
\* the retry can take place; a socket the client disconnected is closed and is
\* opened again by no handler and no timer, only by the effect creating a
\* connection or by forceReconnect.
C19_ReconnectByReason ==
    /\ [](\A s \in SockIds : sock[s] = "waiting" => ENABLED OnReconnect(s))
    /\ [][\A s \in SockIds :
            /\ (last'.op = "disconnect" /\ sock[s] = "connected" /\ sock'[s] # "connected")
                 => sock'[s] = (IF last'.arg = "io server disconnect"
                                THEN "connecting" ELSE "waiting")
            /\ (sock[s] # "closed" /\ sock'[s] = "closed") => last'.op \in {"login", "logout"}
            /\ (sock[s] = "closed" /\ sock'[s] # "closed") => last'.op = "login"
            /\ last'.op = "forceReconnect" => sock'[socketRef] = "connecting"]_vars

C19_Witness ==
    /\ last.op = "disconnect"
    /\ last.arg = "io server disconnect"
    /\ socketRef # 0
    /\ sock[socketRef] = "connecting"
    /\ ~connected

\* The ids of the messages the mounted chat page holds, in order
IdsOf(seq) == [i \in 1..Len(seq) |-> seq[i].id]

\* C20: no message id appears twice in the mounted chat page's messages, and a
\* receive_message or receive_private_message event whose id the page already
\* holds leaves the messages as they are.
C20_MessagesUniqueById ==
    /\ [](\A i, j \in 1..Len(messages) : messages[i].id = messages[j].id => i = j)
    /\ [][(last'.op \in {"receive_message", "receive_private_message"})
            => /\ last'.res = "duplicate" => messages' = messages
               /\ last'.res = "appended"
                    => /\ Len(messages') = Len(messages) + 1
                       /\ SubSeq(messages', 1, Len(messages)) = messages
                       /\ ~IsDuplicate(messages, messages'[Len(messages')].id)
               /\ last'.res = "ignored" => messages' = messages]_vars

C20_Witness ==
    /\ last.op = "receive_message"
    /\ last.res = "duplicate"
    /\ Len(messages) = 2
    /\ IdsOf(messages) = <<2, 1>>

\* The sockets that are attempting to connect, connected or retrying
ActiveSocks == {s \in SockIds : sock[s] \in {"connecting", "connected", "waiting"}}

\* C21: at most one socket the manager created is connecting, connected or
\* waiting to reconnect, and the effect creates a socket only for an
\* authenticated identity and when no such socket exists.
C21_OneConnection ==
    /\ [](Cardinality(ActiveSocks) <= 1)
    /\ [][last'.res = "created"
            => /\ last'.op = "login"
               /\ isAuthenticated(user', token')
               /\ ActiveSocks = {}]_vars

\* C22: teardown closes the connection whatever phase it is in: while no
\* identity is logged in, no socket the manager created is connecting,
\* connected or waiting to reconnect.
C22_TeardownCloses ==
    user = NoUser => ActiveSocks = {}

\* C23: after teardown the derived state is reset and stays reset: while no
\* identity is logged in the manager holds no socket, is not connected and not
\* initialized, has an empty roster, no current room, no pending join and an
\* empty tracker, and no step emits a transport event.
C23_StaysReset ==
    user = NoUser
        => /\ socketRef = 0
           /\ ~connected
           /\ ~socketInitialized
           /\ onlineUsers = <<>>
           /\ currentRoom = NoRoom
           /\ ~roomJoinInProgress
           /\ joinedUsers = {}
           /\ out = <<>>

\* C28: while a join is pending the manager has a current room and it is the
\* room of the pending join.
C28_PendingJoinHasRoom ==
    roomJoinInProgress => (currentRoom # NoRoom /\ currentRoom = lastJoinedRoom)

C28_Witness ==
    roomJoinInProgress /\ currentRoom = "Chat Room 2" /\ last.op = "user_joined"

\* C29: the initialized flag equals the connected flag in every state, so a
\* joinPrivateRoom or sendPrivateMessage that passes its connected check finds
\* the flag set and never emits the implicit user_connected for the default
\* room.
C29_InitializedIffConnected ==
    /\ [](socketInitialized = connected)
    /\ [][last'.op \in {"joinPrivateRoom", "sendPrivateMessage"}
            => \A i \in 1..Len(out') : out'[i].ev # "user_connected"]_vars

C29_Witness ==
    /\ last.op = "joinPrivateRoom"
    /\ last.res = "joined"
    /\ connected
    /\ socketInitialized
    /\ Len(out) = 1
    /\ out[1].ev = "join_private"

\* The positions of the join-timeout timers among the timers seq
JoinTimeoutsOf(seq) == {i \in 1..Len(seq) : seq[i].kind = "join_timeout"}

\* C30: at most one join-timeout timer is outstanding; while a join is pending
\* an outstanding join-timeout timer is the one of the pending join; and after
\* a joinRoom that starts a join the only join-timeout timer is the one that
\* call created, the previous one having been cancelled.
C30_OneJoinTimeout ==
    /\ [](Cardinality(JoinTimeoutsOf(timers)) <= 1)
    /\ [](roomJoinInProgress
            => \A i \in JoinTimeoutsOf(timers) : timers[i].arg = lastJoinedRoom)
    /\ [][(last'.op = "joinRoom" /\ last'.res = "started")
            => /\ JoinTimeoutsOf(timers') = {Len(timers')}
               /\ timers'[Len(timers')].arg = last'.arg]_vars

\* The timer of an earlier join is still outstanding after the room was left
C30_Witness ==
    /\ last.op = "leaveRoom"
    /\ last.res = "left"
    /\ ~roomJoinInProgress
    /\ currentRoom = NoRoom
    /\ JoinTimeoutsOf(timers) # {}

\* The positions in seq of the events ev for room r
EventsOf(seq, ev, r) == {i \in 1..Len(seq) : seq[i].ev = ev /\ seq[i].arg = r}

\* C27: when Chat's room changes from a to b while connected, the cleanup and
\* the effect together emit exactly one leave for a and exactly one
\* user_connected for b, the leave before the join, and currentRoom is b
\* afterwards.
C27_RoomChange ==
    [][\A a, b \in Rooms :
          (/\ last'.op = "Chat.room"
           /\ last'.res = "changed"
           /\ effectRoom = a
           /\ effectRoom' = b
           /\ effectConnected
           /\ connected
           /\ currentRoom = a)
             => /\ Cardinality(EventsOf(out', "leave", a)) = 1
                /\ Cardinality(EventsOf(out', "user_connected", b)) = 1
                /\ \A i \in EventsOf(out', "leave", a), j \in EventsOf(out', "user_connected", b) : i < j
                /\ currentRoom' = b]_vars

\* How many times x occurs in seq
TimesIn(seq, x) == Cardinality({i \in 1..Len(seq) : seq[i] = x})

\* C26: cancelling a subscription stops delivery to that subscriber, and only
\* to it: an event a socket dispatches is handed exactly once to every
\* subscriber that registered for that event on that socket and has not
\* cancelled, and to no other subscriber, in particular to none that cancelled.
C26_IndependentCancel ==
    [][last'.op = "deliver"
         => \A x \in Subscribers :
              TimesIn(delivered'.to, x)
                = IF /\ sub[x].ev = last'.arg
                     /\ sub[x].on = delivered'.on
                     /\ ~sub[x].cancelled
                  THEN 1 ELSE 0]_vars

\* The send events among the emissions seq
SocketSends(seq) == {i \in 1..Len(seq) : seq[i].ev \in {"send_message", "send_private_message"}}

\* C25: a submission in Chat or PrivateChat goes by exactly one path: it is
\* emitted once on the socket when the page is connected and the manager's send
\* operation accepts it, and otherwise is posted through the REST API and not
\* emitted.
C25_OnePath ==
    [][last'.op \in {"Chat.send", "PrivateChat.send"}
          => LET accepted == IF last'.op = "Chat.send"
                             THEN SendAccepted(last'.arg, last'.given)
                             ELSE PrivateSendAccepted(last'.arg, last'.given)
                 rest == last'.res \in {"rest", "failed", "both"}
                 sent == Cardinality(SocketSends(out'))
             IN  /\ rest <=> (~connected \/ ~accepted)
                 /\ sent = IF rest THEN 0 ELSE 1
                 /\ (last'.res = "rest") <=> (Len(messages') = Len(messages) + 1)]_vars

C25_Witness ==
    /\ last.op = "PrivateChat.send"
    /\ last.res = "rest"
    /\ ~connected
    /\ out = <<>>
    /\ Len(messages) = 1

\* C24: a socket's retries end in terminal failure exactly when the fifth
\* consecutive reconnection attempt fails, which is reported; a socket that
\* gave up makes no further attempt until forceReconnect; and unless
\* forceReconnect keeps being called, a socket that is trying to connect
\* eventually is connected or has given up.
C24_BoundedRetry ==
    /\ [](\A s \in SockIds : attempts[s] < ReconnectionAttempts)
    /\ [][\A s \in SockIds :
            /\ (sock[s] # "failed" /\ sock'[s] = "failed")
                 => /\ sock[s] = "waiting"
                    /\ attempts[s] = 4
                    /\ last'.op = "connect_error"
                    /\ \E i \in 1..Len(notes') :
                          notes'[i] = "Failed to reconnect. Please refresh the page."
            /\ (sock[s] = "failed" /\ sock'[s] # "failed") => last'.op = "forceReconnect"]_vars
    /\ \/ []<>(last.op = "forceReconnect")
       \/ \A s \in SockIds :
            (sock[s] \in {"connecting", "waiting"}) ~> (sock[s] \in {"connected", "failed"})

C24_Witness ==
    /\ last.op = "connect_error"
    /\ last.res = "gave_up"
    /\ \E s \in SockIds : sock[s] = "failed"

====
